---- MODULE Spec2Model ----
(***************************************************************************)
(* Model of the helpful_fountains question-answering pipeline:             *)
(*   src/main.py                    ("main" variant, looping driver)       *)
(*   src/helpful_fountains/main.py  ("hf" variant, single-pass driver)     *)
(*                                                                         *)
(* Python strings are modelled run-length encoded: a string is a sequence  *)
(* of runs [c |-> character, n |-> repetitions], kept normalised (no empty *)
(* run, no two adjacent runs of the same character).  This keeps the       *)
(* program's real constants (50, 1000, 3500 * 4) within reach of TLC.      *)
(***************************************************************************)
EXTENDS Integers, Sequences, FiniteSets, TLC

VARIABLES variant, debug, pc, runs, wikipedia_article_urls, WIKIPEDIA_TEXT,
          prompt, response, stdout, error, trace, call, ret

vars == <<variant, debug, pc, runs, wikipedia_article_urls, WIKIPEDIA_TEXT,
          prompt, response, stdout, error, trace, call, ret>>

driverVars == <<variant, debug, pc, runs, wikipedia_article_urls,
                WIKIPEDIA_TEXT, prompt, response, stdout, error, trace>>

fnVars == <<call, ret>>

(***************************************************************************)
(* Bounds of the model                                                     *)
(***************************************************************************)
MaxPars == 3
MaxN == 4
MaxResults == 2
MaxRuns == 2

(***************************************************************************)
(* Program constants                                                       *)
(***************************************************************************)
InfoboxCap == 1000
MinParagraphLen == 50
TokenBudget == 3500
CharsPerToken == 4
DefaultParagraphsMain == 4
DefaultParagraphsHf == 3

(***************************************************************************)
(* Python str, run-length encoded                                          *)
(***************************************************************************)
Run(ch, k) == [c |-> ch, n |-> k]

Str(ch, k) == IF k <= 0 THEN <<>> ELSE <<Run(ch, k)>>

RECURSIVE Norm(_)
Norm(s) ==
    IF s = <<>> THEN <<>>
    ELSE IF s[1].n <= 0 THEN Norm(Tail(s))
    ELSE LET rest == Norm(Tail(s))
         IN IF rest # <<>> /\ rest[1].c = s[1].c
            THEN <<Run(s[1].c, s[1].n + rest[1].n)>> \o Tail(rest)
            ELSE <<s[1]>> \o rest

RECURSIVE StrLen(_)
StrLen(s) == IF s = <<>> THEN 0 ELSE s[1].n + StrLen(Tail(s))

Concat(s, t) == Norm(s \o t)

\* s[:k] for k >= 0
RECURSIVE Take(_, _)
Take(s, k) ==
    IF k <= 0 \/ s = <<>> THEN <<>>
    ELSE IF s[1].n <= k THEN <<s[1]>> \o Take(Tail(s), k - s[1].n)
    ELSE <<Run(s[1].c, k)>>

Whitespace == {" ", "\n"}

RECURSIVE LStrip(_)
LStrip(s) ==
    IF s = <<>> THEN <<>>
    ELSE IF s[1].c \in Whitespace THEN LStrip(Tail(s)) ELSE s

RECURSIVE RStrip(_)
RStrip(s) ==
    IF s = <<>> THEN <<>>
    ELSE IF s[Len(s)].c \in Whitespace THEN RStrip(SubSeq(s, 1, Len(s) - 1))
    ELSE s

\* str.strip()
Strip(s) == RStrip(LStrip(s))

RECURSIVE Repeat(_, _)
Repeat(s, k) == IF k <= 0 THEN <<>> ELSE s \o Repeat(s, k - 1)

\* str.replace(old, new) for a one-character old
RECURSIVE ReplaceRaw(_, _, _)
ReplaceRaw(s, old, new) ==
    IF s = <<>> THEN <<>>
    ELSE (IF s[1].c = old THEN Repeat(new, s[1].n) ELSE <<s[1]>>)
         \o ReplaceRaw(Tail(s), old, new)

Replace(s, old, new) == Norm(ReplaceRaw(s, old, new))

\* sep.join(list)
RECURSIVE Join(_, _)
Join(sep, list) ==
    IF list = <<>> THEN <<>>
    ELSE IF Len(list) = 1 THEN list[1]
    ELSE Concat(list[1], Concat(sep, Join(sep, Tail(list))))

\* list[:k] for k >= 0
Slice(list, k) == SubSeq(list, 1, IF k < Len(list) THEN k ELSE Len(list))

RECURSIVE SumLen(_)
SumLen(list) == IF list = <<>> THEN 0 ELSE StrLen(list[1]) + SumLen(Tail(list))

SeqUpTo(S, k) == UNION {[1..m -> S] : m \in 0..k}

(***************************************************************************)
(* Pages: the parsed HTML of an article.  A paragraph is a <p> element     *)
(* with its text and whether it is a direct child of div.mw-parser-output; *)
(* the infobox is the first table.infobox element, if the page has one.    *)
(***************************************************************************)
Paragraph(t, d) == [text |-> t, direct |-> d]

ParagraphElems ==
    { Paragraph(Str("a", MinParagraphLen), TRUE),
      Paragraph(<<Run(" ", 2), Run("b", MinParagraphLen - 1), Run("\n", 1)>>, TRUE),
      Paragraph(Str(" ", MinParagraphLen + 1), TRUE),
      Paragraph(Str("b", MinParagraphLen + 10), FALSE) }

NoInfobox == [present |-> FALSE, text |-> <<>>]

Infobox(t) == [present |-> TRUE, text |-> t]

Infoboxes ==
    { NoInfobox,
      Infobox(<<Run("x", 3), Run("\n", 1), Run("y", 2)>>),
      Infobox(<<Run("x", InfoboxCap - 2), Run("\n", 1), Run("y", 5)>>),
      Infobox(Str("x", InfoboxCap + 200)) }

Pages(k) == {[pars |-> ps, infobox |-> ib] : ps \in SeqUpTo(ParagraphElems, k),
                                             ib \in Infoboxes}

(***************************************************************************)
(* Results of a call: a returned value or a raised exception               *)
(***************************************************************************)
Return(v) == [raised |-> "none", value |-> v]

Raise(cls) == [raised |-> cls, value |-> <<>>]

(***************************************************************************)
(* get_wikipedia_text                                                      *)
(***************************************************************************)
\* src/main.py: [par.text.strip() for par in pars if par.text.strip()][:N]
\* over soup.select("div.mw-parser-output > p")
non_empty_pars(page, paragraph_number) ==
    LET pars == SelectSeq(page.pars, LAMBDA par : par.direct)
        stripped == [i \in 1..Len(pars) |-> Strip(pars[i].text)]
    IN Slice(SelectSeq(stripped, LAMBDA t : t # <<>>), paragraph_number)

\* mutant: the cap applied before the line breaks are replaced
infobox_text_cut_first(infobox) ==
    Replace(Take(infobox.text, InfoboxCap), "\n", <<Run(",", 1), Run(" ", 1)>>)

\* src/main.py: infobox.text.replace("\n", ", ")[:1000]
infobox_text(infobox) ==
    Take(Replace(infobox.text, "\n", <<Run(",", 1), Run(" ", 1)>>), InfoboxCap)

get_wikipedia_text_main(page, paragraph_number) ==
    LET text == Join(Str("\n", 1), non_empty_pars(page, paragraph_number))
    IN IF page.infobox.present
       THEN Concat(infobox_text(page.infobox), text)
       ELSE text

\* mutant: a paragraph of exactly 50 characters passes the filter
long_enough_inclusive(paragraph) == StrLen(paragraph.text) >= MinParagraphLen

\* src/helpful_fountains/main.py: the loop over soup.find_all("p")
long_enough(paragraph) == StrLen(paragraph.text) > MinParagraphLen

paras(page) ==
    LET kept == SelectSeq(page.pars, long_enough)
    IN [i \in 1..Len(kept) |-> Strip(kept[i].text)]

get_wikipedia_text_hf(page, paragraph_number) ==
    Join(Str(" ", 1), Slice(paras(page), paragraph_number))

(***************************************************************************)
(* create_prompt.  The prompt is the fixed template of the variant with    *)
(* the three interpolated parts.                                           *)
(***************************************************************************)
PyStr(s) == [type |-> "str", val |-> s]

PyList(l) == [type |-> "list", val |-> l]

\* the elements a Python for-loop draws from a str (its characters) or a list
RECURSIVE Chars(_)
Chars(s) ==
    IF s = <<>> THEN <<>>
    ELSE [i \in 1..s[1].n |-> Str(s[1].c, 1)] \o Chars(Tail(s))

PyIter(x) == IF x.type = "str" THEN Chars(x.val) ELSE x.val

\* mutant: the budget counted in tokens, not in characters
truncate_tokens(content) == Take(content, TokenBudget)

truncate_content(content) == Take(content, TokenBudget * CharsPerToken)

\* [create_hyperlink(url) for url in links].  create_hyperlink comes from utils;
\* an entry of the list is recorded as the argument it is made from.
hyperlinks(links) ==
    LET it == PyIter(links)
    IN [i \in 1..Len(it) |-> [hyperlink_of |-> it[i]]]

create_prompt_main(search_question, content, links) ==
    [template |-> "main",
     content |-> truncate_content(content),
     links |-> hyperlinks(links),
     search_question |-> search_question]

create_prompt_hf(search_question, content, link) ==
    [template |-> "hf",
     content |-> content,
     links |-> link.val,
     search_question |-> search_question]

(***************************************************************************)
(* create_response.  The outcome of openai.Completion.create is the        *)
(* provider's: a completion object or a raised exception.                  *)
(***************************************************************************)
RateLimitMsg ==
    "I am sorry, but the model is currently overloaded with other requests. Please try again."

CannotAnswerMsg ==
    "I am sorry, but I am unable to answer this question. I can only answer questions that can be answered using the content of Wikipedia. Please try to rephrase your question."

ModelAnswer == "Paris is the capital of France."

\* class -> its base classes (itself included)
Bases(cls) ==
    CASE cls = "RateLimitError" -> {"RateLimitError", "OpenAIError", "Exception"}
      [] cls = "APIError" -> {"APIError", "OpenAIError", "Exception"}
      [] cls = "OpenAIError" -> {"OpenAIError", "Exception"}
      [] OTHER -> {cls, "Exception"}

ProviderErrors == {"RateLimitError", "APIError", "OpenAIError"}

CompletionOutcomes ==
    {Return(ModelAnswer)} \cup {Raise(cls) : cls \in ProviderErrors \cup {"KeyboardInterrupt"}}

OpenAIObject(text) == [type |-> "OpenAIObject", choices |-> <<[text |-> text]>>]

Dict(text) == [type |-> "dict", choices |-> <<[text |-> text]>>]

\* mutant: the general clause placed before the specific one
handlers_swapped ==
    << <<"OpenAIError", CannotAnswerMsg>>, <<"RateLimitError", RateLimitMsg>> >>

\* the except clauses, tried in source order
handlers == << <<"RateLimitError", RateLimitMsg>>, <<"OpenAIError", CannotAnswerMsg>> >>

create_response_main(outcome) ==
    IF outcome.raised = "none" THEN Return(OpenAIObject(outcome.value))
    ELSE LET matching == SelectSeq(handlers, LAMBDA h : h[1] \in Bases(outcome.raised))
         IN IF matching = <<>> THEN Raise(outcome.raised)
            ELSE Return(Dict(matching[1][2]))

create_response_hf(outcome) ==
    IF outcome.raised = "none" THEN Return(OpenAIObject(outcome.value))
    ELSE Raise(outcome.raised)

\* response.choices[0]["text"] of the drivers
first_choice_text(resp) ==
    IF resp.type = "dict" THEN Raise("AttributeError")
    ELSE Return(resp.choices[1].text)

(***************************************************************************)
(* get_wikipedia_article_urls.  The search response is the parsed JSON     *)
(* body, or the failure of the HTTP call.                                  *)
(***************************************************************************)
Urls == { <<Run("w", 1), Run("/", 1), Run("A", 1)>>,
          <<Run("w", 1), Run("/", 1), Run("B", 2)>> }

NoItems == [status |-> "ok", has_items |-> FALSE, items |-> <<>>]

Items(links) ==
    [status |-> "ok", has_items |-> TRUE,
     items |-> [i \in 1..Len(links) |-> [link |-> links[i]]]]

SearchFailure == [status |-> "failed", has_items |-> FALSE, items |-> <<>>]

SearchResponses ==
    {SearchFailure, NoItems} \cup {Items(l) : l \in SeqUpTo(Urls, MaxResults)}

\* mutant: a response without items read as one with an empty item list
get_urls_default_empty(data) ==
    IF data.status = "failed" THEN Raise("RequestException")
    ELSE Return([i \in 1..Len(data.items) |-> data.items[i].link])

get_wikipedia_article_urls(data) ==
    IF data.status = "failed" THEN Raise("RequestException")
    ELSE IF ~data.has_items THEN Raise("TypeError")
    ELSE Return([i \in 1..Len(data.items) |-> data.items[i].link])

(***************************************************************************)
(* The drivers (the __main__ blocks).  pc is the driver's position; trace  *)
(* is the history of the stages of the current pass through the body.      *)
(***************************************************************************)
Variants == {"main", "hf"}

SearchQuestion == "What is the capital of France?"

NoError == [cls |-> "none", at |-> "none"]

Event(op, ok, arg) == [op |-> op, ok |-> ok, arg |-> arg]

ItemsKind(data) ==
    IF data.status = "failed" THEN "failed"
    ELSE IF ~data.has_items THEN "absent"
    ELSE IF data.items = <<>> THEN "empty" ELSE "nonempty"

\* mutant: the last result taken instead of the first
last_url(urls) == IF urls = <<>> THEN Raise("IndexError") ELSE Return(urls[Len(urls)])

\* wikipedia_article_urls[0]
first_url(urls) == IF urls = <<>> THEN Raise("IndexError") ELSE Return(urls[1])

default_text(v, page) ==
    IF v = "main" THEN get_wikipedia_text_main(page, DefaultParagraphsMain)
    ELSE get_wikipedia_text_hf(page, DefaultParagraphsHf)

NoPage == [pars |-> <<>>, infobox |-> NoInfobox]

FetchFailure == [status |-> "failed", page |-> NoPage]

Fetched(page) == [status |-> "ok", page |-> page]

\* the pages the drivers are run on: an empty page, a page of one ordinary
\* paragraph, and a page whose excerpt exceeds the prompt's budget
DriverPages ==
    { NoPage,
      [pars |-> <<Paragraph(<<Run(" ", 2), Run("b", MinParagraphLen - 1), Run("\n", 1)>>, TRUE)>>,
       infobox |-> NoInfobox],
      [pars |-> <<Paragraph(Str("c", TokenBudget * CharsPerToken + 1), TRUE)>>,
       infobox |-> Infobox(<<Run("x", 3), Run("\n", 1), Run("y", 2)>>)] }

FetchOutcomes == {FetchFailure} \cup {Fetched(page) : page \in DriverPages}

Crash(cls, at) ==
    /\ pc' = "crashed"
    /\ error' = [cls |-> cls, at |-> at]

Init ==
    /\ variant \in Variants
    /\ debug \in BOOLEAN
    /\ pc = "search"
    /\ runs = 0
    /\ wikipedia_article_urls = <<>>
    /\ WIKIPEDIA_TEXT = <<>>
    /\ prompt = [template |-> "none", content |-> <<>>, links |-> <<>>,
                 search_question |-> ""]
    /\ response = [type |-> "none", choices |-> <<>>]
    /\ stdout = <<>>
    /\ error = NoError
    /\ trace = <<>>
    /\ call = [fn |-> "none"]
    /\ ret = Return(<<>>)

\* wikipedia_article_urls = get_wikipedia_article_urls(...)
Search(data) ==
    /\ pc = "search"
    /\ runs < MaxRuns
    /\ runs' = runs + 1
    /\ LET r == get_wikipedia_article_urls(data)
       IN /\ trace' = <<Event("search", r.raised = "none", ItemsKind(data))>>
          /\ IF r.raised = "none"
             THEN /\ wikipedia_article_urls' = r.value
                  /\ pc' = "fetch"
                  /\ error' = error
             ELSE /\ Crash(r.raised, "search")
                  /\ UNCHANGED wikipedia_article_urls
    /\ UNCHANGED <<variant, debug, WIKIPEDIA_TEXT, prompt, response, stdout, fnVars>>

\* mutant: a failed page fetch swallowed, the run going on with an empty excerpt
FetchSwallow(outcome) ==
    /\ pc = "fetch"
    /\ LET u == first_url(wikipedia_article_urls)
       IN IF u.raised # "none"
          THEN /\ outcome = FetchFailure
               /\ Crash(u.raised, "fetch")
               /\ UNCHANGED <<WIKIPEDIA_TEXT, trace>>
          ELSE /\ WIKIPEDIA_TEXT' = IF outcome = FetchFailure THEN <<>>
                                    ELSE default_text(variant, outcome.page)
               /\ trace' = Append(trace, Event("fetch", outcome # FetchFailure, u.value))
               /\ pc' = "prompt"
               /\ error' = error
    /\ UNCHANGED <<variant, debug, runs, wikipedia_article_urls, prompt, response,
                   stdout, fnVars>>

\* WIKIPEDIA_TEXT = get_wikipedia_text(wikipedia_article_urls[0])
Fetch(outcome) ==
    /\ pc = "fetch"
    /\ LET u == first_url(wikipedia_article_urls)
       IN IF u.raised # "none"
          THEN /\ outcome = FetchFailure
               /\ Crash(u.raised, "fetch")
               /\ UNCHANGED <<WIKIPEDIA_TEXT, trace>>
          ELSE IF outcome = FetchFailure
          THEN /\ Crash("RequestException", "fetch")
               /\ trace' = Append(trace, Event("fetch", FALSE, u.value))
               /\ UNCHANGED WIKIPEDIA_TEXT
          ELSE /\ WIKIPEDIA_TEXT' = default_text(variant, outcome.page)
               /\ trace' = Append(trace, Event("fetch", TRUE, u.value))
               /\ pc' = "prompt"
               /\ error' = error
    /\ UNCHANGED <<variant, debug, runs, wikipedia_article_urls, prompt, response,
                   stdout, fnVars>>

\* prompt = create_prompt(SEARCH_QUESTION, WIKIPEDIA_TEXT, wikipedia_article_urls[0])
Prompt ==
    /\ pc = "prompt"
    /\ LET u == first_url(wikipedia_article_urls)
       IN IF u.raised # "none"
          THEN /\ Crash(u.raised, "prompt")
               /\ UNCHANGED <<prompt, trace>>
          ELSE /\ prompt' = IF variant = "main"
                            THEN create_prompt_main(SearchQuestion, WIKIPEDIA_TEXT,
                                                    PyStr(u.value))
                            ELSE create_prompt_hf(SearchQuestion, WIKIPEDIA_TEXT,
                                                  PyStr(u.value))
               /\ trace' = Append(trace, Event("prompt", TRUE, u.value))
               /\ pc' = "complete"
               /\ error' = error
    /\ UNCHANGED <<variant, debug, runs, wikipedia_article_urls, WIKIPEDIA_TEXT,
                   response, stdout, fnVars>>

\* response = create_response(prompt)
Complete(outcome) ==
    /\ pc = "complete"
    /\ LET r == IF variant = "main" THEN create_response_main(outcome)
                ELSE create_response_hf(outcome)
       IN /\ trace' = Append(trace, Event("completion", outcome.raised = "none",
                                          outcome.raised))
          /\ IF r.raised = "none"
             THEN /\ response' = r.value
                  /\ pc' = "print"
                  /\ error' = error
             ELSE /\ Crash(r.raised, "complete")
                  /\ UNCHANGED response
    /\ UNCHANGED <<variant, debug, runs, wikipedia_article_urls, WIKIPEDIA_TEXT,
                   prompt, stdout, fnVars>>

Line(kind, text) == [kind |-> kind, text |-> text]

debug_lines ==
    IF debug
    THEN << Line("debug", "--------------------"),
            Line("debug", <<"Question: ", SearchQuestion>>),
            Line("debug", "--------------------"),
            Line("debug", <<"Corpus: ", WIKIPEDIA_TEXT>>),
            Line("debug", "--------------------"),
            Line("debug", "Response: ") >>
    ELSE <<>>

\* where the driver goes after its last statement
after_print(v) == IF v = "main" THEN "search" ELSE "done"

\* the debug block and print(response.choices[0]["text"])
PrintAnswer ==
    /\ pc = "print"
    /\ LET t == first_choice_text(response)
       IN IF t.raised = "none"
          THEN /\ stdout' = stdout \o debug_lines \o <<Line("answer", t.value)>>
               /\ trace' = Append(trace, Event("print", TRUE, t.value))
               /\ pc' = after_print(variant)
               /\ error' = error
          ELSE /\ stdout' = stdout \o debug_lines
               /\ trace' = Append(trace, Event("print", FALSE, t.raised))
               /\ Crash(t.raised, "print")
    /\ UNCHANGED <<variant, debug, runs, wikipedia_article_urls, WIKIPEDIA_TEXT,
                   prompt, response, fnVars>>

Next ==
    \/ \E data \in SearchResponses : Search(data)
    \/ \E outcome \in FetchOutcomes : Fetch(outcome)
    \/ Prompt
    \/ \E outcome \in CompletionOutcomes : Complete(outcome)
    \/ PrintAnswer

Spec == Init /\ [][Next]_vars

(***************************************************************************)
(* The functions called on their own, on inputs drawn from bounded sets    *)
(***************************************************************************)
Excerpts ==
    { <<>>,
      Str("a", 7),
      Str("a", TokenBudget * CharsPerToken - 1),
      Str("a", TokenBudget * CharsPerToken),
      Str("a", TokenBudget * CharsPerToken + 1),
      <<Run("a", TokenBudget * CharsPerToken), Run("b", 1)>>,
      <<Run("a", TokenBudget * CharsPerToken - 1), Run("b", 1)>>,
      <<Run("a", TokenBudget * 2), Run("\n", 1), Run("b", TokenBudget * 2)>>,
      <<Run("x", InfoboxCap), Run("b", TokenBudget * CharsPerToken)>> }

LinkArgs == {PyStr(u) : u \in Urls} \cup {PyList(l) : l \in SeqUpTo(Urls, MaxResults)}

InitFn ==
    /\ variant = "none"
    /\ debug = FALSE
    /\ pc = "idle"
    /\ runs = 0
    /\ wikipedia_article_urls = <<>>
    /\ WIKIPEDIA_TEXT = <<>>
    /\ prompt = [template |-> "none", content |-> <<>>, links |-> <<>>,
                 search_question |-> ""]
    /\ response = [type |-> "none", choices |-> <<>>]
    /\ stdout = <<>>
    /\ error = NoError
    /\ trace = <<>>
    /\ call = [fn |-> "none"]
    /\ ret = Return(<<>>)

CallGetWikipediaText(v, page, paragraph_number) ==
    /\ call.fn = "none"
    /\ call' = [fn |-> "get_wikipedia_text", variant |-> v, page |-> page,
                paragraph_number |-> paragraph_number]
    /\ ret' = Return(IF v = "main"
                     THEN get_wikipedia_text_main(page, paragraph_number)
                     ELSE get_wikipedia_text_hf(page, paragraph_number))
    /\ UNCHANGED driverVars

CallCreatePrompt(v, content, links) ==
    /\ call.fn = "none"
    /\ v = "hf" => links.type = "str"
    /\ call' = [fn |-> "create_prompt", variant |-> v, content |-> content,
                links |-> links]
    /\ ret' = Return(IF v = "main"
                     THEN create_prompt_main(SearchQuestion, content, links)
                     ELSE create_prompt_hf(SearchQuestion, content, links))
    /\ UNCHANGED driverVars

CallCreateResponse(v, outcome) ==
    /\ call.fn = "none"
    /\ call' = [fn |-> "create_response", variant |-> v, outcome |-> outcome]
    /\ ret' = IF v = "main" THEN create_response_main(outcome)
              ELSE create_response_hf(outcome)
    /\ UNCHANGED driverVars

CallGetUrls(data) ==
    /\ call.fn = "none"
    /\ call' = [fn |-> "get_wikipedia_article_urls", data |-> data]
    /\ ret' = get_wikipedia_article_urls(data)
    /\ UNCHANGED driverVars

NextFn ==
    \/ \E v \in Variants, page \in Pages(MaxPars), n \in 0..MaxN :
           CallGetWikipediaText(v, page, n)
    \/ \E v \in Variants, content \in Excerpts, links \in LinkArgs :
           CallCreatePrompt(v, content, links)
    \/ \E v \in Variants, outcome \in CompletionOutcomes : CallCreateResponse(v, outcome)
    \/ \E data \in SearchResponses : CallGetUrls(data)

SpecFn == InitFn /\ [][NextFn]_vars

(***************************************************************************)
(* Properties                                                              *)
(***************************************************************************)
Budget == TokenBudget * CharsPerToken

Min(a, b) == IF a < b THEN a ELSE b

\* p is a prefix of s (both normalised)
IsPrefix(p, s) ==
    \/ p = <<>>
    \/ /\ Len(p) <= Len(s)
       /\ \A i \in 1..(Len(p) - 1) : p[i] = s[i]
       /\ p[Len(p)].c = s[Len(p)].c
       /\ p[Len(p)].n <= s[Len(p)].n

HasEvent(op) == \E i \in 1..Len(trace) : trace[i].op = op

EventOf(op) == trace[CHOOSE i \in 1..Len(trace) : trace[i].op = op]

Answers == SelectSeq(stdout, LAMBDA l : l.kind = "answer")

\* C1: create_response of src/main.py never raises on a provider failure: a
\* rate-limit error gives the overload/try-again message as the first choice
\* text, any other provider error the 'unable to answer' message.
C1_FallbackMessages ==
    (call.fn = "create_response" /\ call.variant = "main"
       /\ call.outcome.raised \in ProviderErrors)
    => /\ ret.raised = "none"
       /\ Len(ret.value.choices) >= 1
       /\ ret.value.choices[1].text =
             IF call.outcome.raised = "RateLimitError" THEN RateLimitMsg
             ELSE CannotAnswerMsg

C1_Witness ==
    /\ call.fn = "create_response"
    /\ call.variant = "main"
    /\ call.outcome.raised = "RateLimitError"
    /\ ret.raised = "none"
    /\ ret.value.choices[1].text = RateLimitMsg

\* C2: in every run of the src/main.py driver whose search and fetch succeed,
\* the completion stage never ends in an unhandled error: the model's text is
\* printed when the completion succeeds, the fallback message when it fails
\* with a rate-limit or another provider error.
C2_AnswerAlwaysPrinted ==
    (variant = "main" /\ HasEvent("completion")
       /\ EventOf("completion").arg \in ProviderErrors \cup {"none"})
    => /\ error = NoError
       /\ HasEvent("print") =>
             /\ Answers # <<>>
             /\ Answers[Len(Answers)].text =
                   CASE EventOf("completion").arg = "none" -> ModelAnswer
                     [] EventOf("completion").arg = "RateLimitError" -> RateLimitMsg
                     [] OTHER -> CannotAnswerMsg

StageRank(op) ==
    CASE op = "search" -> 1
      [] op = "fetch" -> 2
      [] op = "prompt" -> 3
      [] op = "completion" -> 4
      [] op = "print" -> 5

\* C3: within a pass the stages happen strictly in the order search, page
\* fetch, prompt composition, completion (then the print), each at most once
\* and each only after the one before it has returned; a failed search or
\* fetch is the last stage of the pass and leaves the process ended by an
\* unhandled error, with no completion call and no printed answer after it.
C3_StagesInOrder ==
    /\ \A i \in 1..Len(trace) : StageRank(trace[i].op) = i
    /\ HasEvent("fetch") => (trace[1].op = "search" /\ trace[1].ok)
    /\ HasEvent("completion") => (trace[2].op = "fetch" /\ trace[2].ok)
    /\ \A i \in 1..Len(trace) :
          (trace[i].op \in {"search", "fetch"} /\ ~trace[i].ok)
          => /\ i = Len(trace)
             /\ pc = "crashed"
             /\ error.cls # "none"
             /\ ~HasEvent("completion")
             /\ ~HasEvent("print")
    /\ pc = "crashed" <=> error # NoError

C3_Witness ==
    /\ pc = "crashed"
    /\ Len(trace) = 2
    /\ trace[1].op = "search" /\ trace[1].ok
    /\ trace[2].op = "fetch" /\ ~trace[2].ok
    /\ error = [cls |-> "RequestException", at |-> "fetch"]

\* C4: the only URL fetched, and the only URL handed to the prompt composer,
\* is element 0 of the list the search resolver returned, also when its
\* excerpt is empty or its fetch fails.
C4_OnlyFirstResult ==
    \A i \in 1..Len(trace) :
        trace[i].op \in {"fetch", "prompt"}
        => /\ wikipedia_article_urls # <<>>
           /\ trace[i].arg = wikipedia_article_urls[1]
           /\ \A j \in 1..Len(trace) : trace[j].op = trace[i].op => j = i

C4_Witness ==
    /\ Len(wikipedia_article_urls) >= 2
    /\ wikipedia_article_urls[2] # wikipedia_article_urls[1]
    /\ HasEvent("fetch") /\ EventOf("fetch").ok
    /\ EventOf("fetch").arg = wikipedia_article_urls[1]
    /\ WIKIPEDIA_TEXT = <<>>
    /\ HasEvent("prompt")
    /\ pc = "complete"

\* C5 (as stated): when the search response carries no result items (items
\* absent, or an empty array) get_wikipedia_article_urls returns an empty list
\* and the run fails at the driver's access to element 0 of it, before any
\* page fetch or completion call.
C5_EmptyListThenIndexError ==
    (trace # <<>> /\ trace[1].op = "search" /\ trace[1].arg \in {"absent", "empty"})
    => /\ trace[1].ok
       /\ wikipedia_article_urls = <<>>
       /\ Len(trace) = 1
       /\ pc # "fetch" => (pc = "crashed" /\ error = [cls |-> "IndexError", at |-> "fetch"])

\* C5 (amended): an empty items array makes get_wikipedia_article_urls return
\* an empty list, and the run fails at the driver's access to element 0 of it;
\* an absent items field makes get_wikipedia_article_urls itself raise (it
\* iterates over None) and no list is returned.  In both cases the run ends
\* with an unhandled error before any page fetch or completion call.
C5_NoItemsFailsBeforeFetch ==
    (trace # <<>> /\ trace[1].op = "search")
    => /\ trace[1].arg = "empty"
          => /\ trace[1].ok
             /\ wikipedia_article_urls = <<>>
             /\ Len(trace) = 1
             /\ pc # "fetch"
                => (pc = "crashed" /\ error = [cls |-> "IndexError", at |-> "fetch"])
       /\ trace[1].arg = "absent"
          => /\ ~trace[1].ok
             /\ Len(trace) = 1
             /\ pc = "crashed"
             /\ error = [cls |-> "TypeError", at |-> "search"]

C5_Witness ==
    /\ trace # <<>>
    /\ trace[1].arg = "absent"
    /\ pc = "crashed"
    /\ error = [cls |-> "TypeError", at |-> "search"]

\* the excerpt embedded in the prompt is the first min(length, 14000)
\* characters of the excerpt given
EmbedsTruncated ==
    /\ IsPrefix(ret.value.content, call.content)
    /\ StrLen(ret.value.content) = Min(StrLen(call.content), Budget)

Selected ==
    IF call.variant = "main" THEN non_empty_pars(call.page, call.paragraph_number)
    ELSE Slice(paras(call.page), call.paragraph_number)

Separators == IF Len(Selected) > 0 THEN Len(Selected) - 1 ELSE 0

\* C7 (as stated): the excerpt is at most 1000 characters plus the lengths of
\* the selected paragraph texts.
C7_CapPlusParagraphs ==
    call.fn = "get_wikipedia_text"
    => StrLen(ret.value) <= InfoboxCap + SumLen(Selected)

\* C7 (amended): the excerpt is at most 1000 characters (the infobox cap,
\* applied after the line breaks are replaced) plus the lengths of the
\* selected paragraph texts plus one separator character between each two
\* consecutive selected paragraphs.
C7_CapPlusParagraphsPlusSeparators ==
    call.fn = "get_wikipedia_text"
    => /\ Len(Selected) <= call.paragraph_number
       /\ StrLen(ret.value) <= InfoboxCap + SumLen(Selected) + Separators

C7_Witness ==
    /\ call.fn = "get_wikipedia_text"
    /\ call.variant = "main"
    /\ call.page.infobox.present
    /\ \E i \in 1..Len(call.page.infobox.text) : call.page.infobox.text[i].c = "\n"
    /\ Len(Selected) >= 2
    /\ StrLen(ret.value) = InfoboxCap + SumLen(Selected) + Separators

\* the positions of the paragraphs C8 says are taken
Qualifies(page, i) == StrLen(page.pars[i].text) > MinParagraphLen

Taken(page, n) ==
    {i \in 1..Len(page.pars) :
        /\ Qualifies(page, i)
        /\ Cardinality({j \in 1..(i - 1) : Qualifies(page, j)}) < n}

TakenTexts(page, n) ==
    LET positions == SelectSeq([i \in 1..Len(page.pars) |-> i],
                               LAMBDA i : i \in Taken(page, n))
    IN [k \in 1..Len(positions) |-> Strip(page.pars[positions[k]].text)]

\* C8: get_wikipedia_text of src/helpful_fountains/main.py builds its excerpt
\* from exactly the first N paragraphs, in document order, longer than 50
\* characters; with no such paragraph the excerpt is empty and nothing is
\* raised.
C8_FirstNLongParagraphs ==
    (call.fn = "get_wikipedia_text" /\ call.variant = "hf")
    => /\ ret.raised = "none"
       /\ ret.value = Join(Str(" ", 1), TakenTexts(call.page, call.paragraph_number))
       /\ Taken(call.page, call.paragraph_number) = {} => ret.value = <<>>

C8_Witness ==
    /\ call.fn = "get_wikipedia_text"
    /\ call.variant = "hf"
    /\ call.paragraph_number >= 1
    /\ Len(call.page.pars) = 2
    /\ StrLen(call.page.pars[1].text) = MinParagraphLen
    /\ StrLen(call.page.pars[2].text) > MinParagraphLen
    /\ ret.value = Strip(call.page.pars[2].text)
    /\ ret.value # <<>>

\* C9: a process of the src/main.py driver performs the search, fetch, prompt
\* and completion stages once and prints one final answer, and then ends.
C9_SingleRun ==
    variant = "main" => /\ runs <= 1
                        /\ Len(Answers) <= 1

\* C10: the prompt of the src/main.py pipeline lists exactly one hyperlink,
\* made from the whole first-result URL.
C10_OneLinkPerUrl ==
    (variant = "main" /\ pc = "complete")
    => prompt.links = <<[hyperlink_of |-> wikipedia_article_urls[1]]>>

====
